---------------------------- MODULE Spec2Model ----------------------------
(***************************************************************************)
(* State-machine model of rockerCam.py: the main flow (get_args, main),    *)
(* the capture orchestrator (openCams), the capture workers (captureLoop,  *)
(* one thread per camera) and the timelapse assembler (img2video).         *)
(***************************************************************************)
EXTENDS Integers, Sequences, FiniteSets, TLC

\* ------------------------------------------------------------------ bounds
MaxCams == 2        \* largest number of cameras usb.core.find reports
MaxArg  == 3        \* --duration and --interval range over -MaxArg..MaxArg

\* a capture loop that cannot end (negative duration and interval) is cut
\* here; a loop over valid arguments ends after at most MaxArg + 1 ticks
TickCap == MaxArg + 2

ArgRange == (0 - MaxArg)..MaxArg
Cams     == 1..MaxCams
Answers  == {"y", "n", "other"}
RootKinds == {"single", "nested", "absolute"}

VARIABLES
    \* command line (Args) and the world the tool is started in
    duration, interval, debug, videoMode, rootKind,
    \* filesystem
    rootExists,     \* the output directory exists
    oldContent,     \* the output directory still holds what it held at start
    camDirs,        \* n such that <root>/camera_<n> exists
    files,          \* files[n]: the capture_<k>.png of camera_<n>
    writers,        \* writers[n]: the threads that wrote or deleted in camera_<n>
    videos,         \* videos[n]: frames of camera_<n>_video.mp4, or <<-1>> (none)
    videoDims,      \* videoDims[n]: the frame size that video was opened with
    vruns,          \* vruns[n]: how often camera_<n>_video.mp4 has been written
    logFile,        \* rockerLogs.log has been opened
    cwd,            \* the process's working directory
    \* main / openCams
    mpc, merr, loggerDefined, num_Cams, i, threads, todo,
    \* captureLoop, one per thread
    wdir, camera_index, wpc, werr, images, pic_time, count, img_num, cap, devReads,
    \* history of the run (what has happened so far)
    answer, prompts, rmtrees, mkdirs, enumerated, started, snapLog, faulted

mainVars == <<mpc, merr, loggerDefined, num_Cams, i, threads, todo>>
argVars  == <<duration, interval, debug, videoMode, rootKind>>
fsVars   == <<rootExists, oldContent, camDirs, files, writers, videos, videoDims, vruns, logFile, cwd>>
workVars == <<wdir, camera_index, wpc, werr, images, pic_time, count, img_num, cap, devReads>>
histVars == <<answer, prompts, rmtrees, mkdirs, enumerated, started, snapLog, faulted>>
vars     == <<argVars, fsVars, mainVars, workVars, histVars>>

\* ------------------------------------------------------------ pure helpers
Abs(x) == IF x < 0 THEN 0 - x ELSE x

\* a division that rounds away from zero instead of truncating
IntDivUp(a, b) ==
    IF (a < 0) = (b < 0) THEN (Abs(a) \div Abs(b)) + 1 ELSE 0 - ((Abs(a) \div Abs(b)) + 1)

\* int(duration/interval): true division, then truncation toward zero
IntDiv(a, b) ==
    IF (a < 0) = (b < 0) THEN Abs(a) \div Abs(b) ELSE 0 - (Abs(a) \div Abs(b))

\* floor(a/b), the mathematical floor the specification speaks of
FloorDiv(a, b) == IF b > 0 THEN a \div b ELSE (0 - a) \div (0 - b)

\* a schedule that starts one interval late
PicTimesLate(n, step) == [x \in 1..(IF n + 1 > 0 THEN n + 1 ELSE 0) |-> x * step]

\* [x * interval for x in list(range(n + 1))]
PicTimes(n, step) == [x \in 1..(IF n + 1 > 0 THEN n + 1 ELSE 0) |-> (x - 1) * step]

\* paths are sequences of names; the tool is started in StartCwd
StartCwd == <<"home", "lab">>
RootArg(kind) ==
    CASE kind = "single"   -> <<"out">>
      [] kind = "nested"   -> <<"runs", "out">>
      [] kind = "absolute" -> <<"data", "out">>
\* the directory a path argument names when used from working directory d
Resolve(d, kind) == IF kind = "absolute" THEN RootArg(kind) ELSE d \o RootArg(kind)
\* where os.mkdir(directory) put the output directory
RootAbs == Resolve(StartCwd, rootKind)
\* os.chdir('../..')
UpTwo(d) == IF Len(d) <= 2 THEN <<>> ELSE SubSeq(d, 1, Len(d) - 2)

NoVideo == <<-1>>

\* the frame size the camera delivers (every frame of a device has the same)
DeviceDims == "device"

\* a file written under the number after the one that is due
CaptureNext(k, t, f) ==
    [num |-> k + 1, mtime |-> t, frame |-> f, dims |-> DeviceDims, ext |-> "png"]

\* the frames a camera directory holds: number, modification time (the tick of
\* the write) and the device frame that was encoded
Capture(k, t, f) ==
    [num |-> k, mtime |-> t, frame |-> f, dims |-> DeviceDims, ext |-> "png"]
Nums(fs) == {c.num : c \in fs}

\* ------------------------------------------------------------------- Init
Init ==
    /\ duration \in ArgRange
    /\ interval \in ArgRange
    /\ debug \in BOOLEAN
    /\ videoMode \in BOOLEAN
    /\ rootKind \in RootKinds
    /\ rootExists \in BOOLEAN
    /\ oldContent = rootExists
    /\ camDirs = {}
    /\ files = [n \in Cams |-> {}]
    /\ writers = [n \in Cams |-> {}]
    /\ videos = [n \in Cams |-> NoVideo]
    /\ videoDims = [n \in Cams |-> "none"]
    /\ vruns = [n \in Cams |-> 0]
    /\ logFile = FALSE
    /\ cwd = StartCwd
    /\ mpc = "get_args"
    /\ merr = "none"
    /\ loggerDefined = FALSE
    /\ num_Cams = 0
    /\ i = 0
    /\ threads = <<>>
    /\ todo = {}
    /\ wdir = [n \in Cams |-> 0]
    /\ camera_index = [n \in Cams |-> 0]
    /\ wpc = [n \in Cams |-> "idle"]
    /\ werr = [n \in Cams |-> "none"]
    /\ images = [n \in Cams |-> 0]
    /\ pic_time = [n \in Cams |-> <<>>]
    /\ count = [n \in Cams |-> 0]
    /\ img_num = [n \in Cams |-> 0]
    /\ cap = [n \in Cams |-> "none"]
    /\ devReads = [n \in Cams |-> 0]
    /\ answer = "none"
    /\ prompts = 0
    /\ rmtrees = 0
    /\ mkdirs = {}
    /\ enumerated = FALSE
    /\ started = {}
    /\ snapLog = [n \in Cams |-> <<>>]
    /\ faulted = {}

\* --------------------------------------------------------------- get_args
\* a zero check that looks at the interval alone
ZeroIntervalOnly(d, iv) == iv = 0

\* line 69: the zero check, the first thing after parsing
ZeroRejected(d, iv) == d = 0 \/ iv = 0

get_args_check ==
    /\ mpc = "get_args"
    /\ IF ZeroRejected(duration, interval)
       THEN /\ mpc' = "error"
            /\ merr' = "ZeroesNotAllowed"
            /\ UNCHANGED prompts
       ELSE IF rootExists
       THEN /\ mpc' = "prompt"
            /\ prompts' = prompts + 1
            /\ UNCHANGED merr
       ELSE /\ mpc' = "logging"
            /\ UNCHANGED <<merr, prompts>>
    /\ UNCHANGED <<argVars, fsVars, loggerDefined, num_Cams, i, threads, todo, workVars>>
    /\ UNCHANGED <<answer, rmtrees, mkdirs, enumerated, started, snapLog, faulted>>

\* a confirmation that takes everything but 'n' for consent
OverwriteUnlessNo(a) == a # "n"

\* line 74: shutil.rmtree(...) if input() == 'y' else exit()
Overwrite(a) == a = "y"

get_args_answer ==
    /\ mpc = "prompt"
    /\ \E a \in Answers :
        /\ answer' = a
        /\ IF Overwrite(a)
           THEN /\ rootExists' = FALSE
                /\ oldContent' = FALSE
                /\ rmtrees' = rmtrees + 1
                /\ mpc' = "logging"
           ELSE /\ mpc' = "exited"
                /\ UNCHANGED <<rootExists, oldContent, rmtrees>>
    /\ UNCHANGED <<argVars, camDirs, files, writers, videos, videoDims, vruns, logFile, cwd>>
    /\ UNCHANGED <<merr, loggerDefined, num_Cams, i, threads, todo, workVars>>
    /\ UNCHANGED <<prompts, mkdirs, enumerated, started, snapLog, faulted>>

\* ------------------------------------------------------------------- main
\* lines 94-101: the global logger exists only in debug mode
main_logging ==
    /\ mpc = "logging"
    /\ loggerDefined' = debug
    /\ logFile' = debug
    /\ mpc' = "find"
    /\ UNCHANGED <<argVars, rootExists, oldContent, camDirs, files, writers, videos, videoDims, vruns, cwd>>
    /\ UNCHANGED <<merr, num_Cams, i, threads, todo, workVars, histVars>>

\* lines 104-106: the enumeration, and the failure on no camera
\* a camera check that never fires
NegativeCameras(n) == n < 0

\* line 105: num_Cams == 0
NoCameras(n) == n = 0

main_find ==
    /\ mpc = "find"
    /\ \E n \in 0..MaxCams :
        /\ num_Cams' = n
        /\ IF NoCameras(n)
           THEN mpc' = "error" /\ merr' = "ZeroCameras"
           ELSE mpc' = "mkdir" /\ UNCHANGED merr
    /\ enumerated' = TRUE
    /\ UNCHANGED <<argVars, fsVars, loggerDefined, i, threads, todo, workVars>>
    /\ UNCHANGED <<answer, prompts, rmtrees, mkdirs, started, snapLog, faulted>>

\* line 109: os.mkdir(directory)
main_mkdir_root ==
    /\ mpc = "mkdir"
    /\ rootExists' = TRUE
    /\ mkdirs' = mkdirs \cup {0}
    /\ i' = 0
    /\ mpc' = "mkdir_cams"
    /\ UNCHANGED <<argVars, oldContent, camDirs, files, writers, videos, videoDims, vruns, logFile, cwd>>
    /\ UNCHANGED <<merr, loggerDefined, num_Cams, threads, todo, workVars>>
    /\ UNCHANGED <<answer, prompts, rmtrees, enumerated, started, snapLog, faulted>>

\* lines 110-111: one camera_<i+1> per pass
main_mkdir_cam ==
    /\ mpc = "mkdir_cams"
    /\ i < num_Cams
    /\ camDirs' = camDirs \cup {i + 1}
    /\ mkdirs' = mkdirs \cup {i + 1}
    /\ i' = i + 1
    /\ UNCHANGED <<argVars, rootExists, oldContent, files, writers, videos, videoDims, vruns, logFile, cwd>>
    /\ UNCHANGED <<mpc, merr, loggerDefined, num_Cams, threads, todo, workVars>>
    /\ UNCHANGED <<answer, prompts, rmtrees, enumerated, started, snapLog, faulted>>

\* line 112: logger.debug(...) names the global, which exists only in debug mode
main_log_created ==
    /\ mpc = "mkdir_cams"
    /\ i = num_Cams
    /\ IF loggerDefined
       THEN mpc' = "openCams" /\ i' = 0 /\ UNCHANGED merr
       ELSE mpc' = "error" /\ merr' = "NameError" /\ UNCHANGED i
    /\ UNCHANGED <<argVars, fsVars, loggerDefined, num_Cams, threads, todo, workVars, histVars>>

\* --------------------------------------------------------------- openCams
\* every thread given the first camera's directory
SharedDir(k) == 1

\* device indices that follow the camera number
DeviceIndexPlain(k) == k

\* line 132: the arguments of the thread started in pass k (k = 0, 1, ...)
WorkerDir(k) == k + 1
DeviceIndex(k) == k * 2

\* a join that is satisfied by a thread that is merely running
StartedState(state) == state # "idle"

\* a thread has ended: captureLoop returned, or an exception left it
Ended(state) == state \in {"done", "failed"}

\* lines 131-135: one thread per camera, started in order
openCams_start ==
    /\ mpc = "openCams"
    /\ i < num_Cams
    /\ LET t == i + 1 IN
        /\ wdir' = [wdir EXCEPT ![t] = WorkerDir(i)]
        /\ camera_index' = [camera_index EXCEPT ![t] = DeviceIndex(i)]
        /\ wpc' = [wpc EXCEPT ![t] = "start"]
        /\ threads' = Append(threads, t)
        /\ started' = started \cup {t}
    /\ IF i + 1 = num_Cams
       THEN mpc' = "join" /\ i' = 0
       ELSE i' = i + 1 /\ UNCHANGED mpc
    /\ UNCHANGED <<argVars, fsVars, merr, loggerDefined, num_Cams, todo>>
    /\ UNCHANGED <<werr, images, pic_time, count, img_num, cap, devReads>>
    /\ UNCHANGED <<answer, prompts, rmtrees, mkdirs, enumerated, snapLog, faulted>>

\* lines 138-139: join the threads in the order they were started
openCams_join ==
    /\ mpc = "join"
    /\ i < Len(threads)
    /\ Ended(wpc[threads[i + 1]])
    /\ i' = i + 1
    /\ UNCHANGED <<argVars, fsVars, mpc, merr, loggerDefined, num_Cams, threads, todo>>
    /\ UNCHANGED <<workVars, histVars>>

\* lines 140-141 and 116: every thread is joined, openCams returns
openCams_return ==
    /\ mpc = "join"
    /\ i = Len(threads)
    /\ mpc' = "returned"
    /\ UNCHANGED <<argVars, fsVars, merr, loggerDefined, num_Cams, i, threads, todo>>
    /\ UNCHANGED <<workVars, histVars>>

\* ------------------------------------------------------------ captureLoop
\* lines 148-157: the schedule, the counters and the device handle
captureLoop_open(t) ==
    /\ wpc[t] = "start"
    /\ LET n == IntDiv(duration, interval) IN
        /\ images' = [images EXCEPT ![t] = n]
        /\ pic_time' = [pic_time EXCEPT ![t] = PicTimes(n, interval)]
    /\ count' = [count EXCEPT ![t] = 0]
    /\ img_num' = [img_num EXCEPT ![t] = 0]
    /\ cap' = [cap EXCEPT ![t] = "open"]
    /\ wpc' = [wpc EXCEPT ![t] = "loop"]
    /\ UNCHANGED <<argVars, fsVars, mainVars, wdir, camera_index, werr, devReads, histVars>>

\* the frame the first read of a pass hands back
StaleFrame(r) == r + 1

\* lines 160 and 163: the frames read in a pass, r frames having been read before
DrainedFrame(r) == r + 1
SnapshotFrame(r) == r + 2

\* line 162: a picture is due
Due(c, times, k) == c = times[k + 1]

\* lines 159-170: one pass of the loop. The first read is dropped; when a
\* picture is due a second frame is read and written. A read that fails hands
\* back no frame and cv2.imwrite raises on it; given a frame, the write into
\* the worker's own directory (made at line 111) succeeds.
captureLoop_tick(t) ==
    /\ wpc[t] = "loop"
    /\ img_num[t] <= images[t]
    /\ count[t] < TickCap
    /\ IF Due(count[t], pic_time[t], img_num[t])
       THEN \E ok \in BOOLEAN :
            /\ devReads' = [devReads EXCEPT ![t] = @ + 2]
            /\ IF ok
               THEN /\ files' = [files EXCEPT ![wdir[t]] =
                          {c \in @ : c.num # img_num[t]}
                              \cup {Capture(img_num[t], count[t], SnapshotFrame(devReads[t]))}]
                    /\ writers' = [writers EXCEPT ![wdir[t]] = @ \cup {t}]
                    /\ snapLog' = [snapLog EXCEPT ![t] =
                          Append(@, <<img_num[t], count[t]>>)]
                    /\ img_num' = [img_num EXCEPT ![t] = @ + 1]
                    /\ count' = [count EXCEPT ![t] = @ + 1]
                    /\ UNCHANGED <<wpc, werr, faulted>>
               ELSE /\ wpc' = [wpc EXCEPT ![t] = "failed"]
                    /\ werr' = [werr EXCEPT ![t] = "cv2.error"]
                    /\ faulted' = faulted \cup {t}
                    /\ UNCHANGED <<files, writers, snapLog, img_num, count>>
       ELSE /\ devReads' = [devReads EXCEPT ![t] = DrainedFrame(@)]
            /\ count' = [count EXCEPT ![t] = @ + 1]
            /\ UNCHANGED <<files, writers, snapLog, img_num, wpc, werr, faulted>>
    /\ UNCHANGED <<argVars, rootExists, oldContent, camDirs, videos, videoDims, vruns, logFile, cwd>>
    /\ UNCHANGED <<mainVars, wdir, camera_index, images, pic_time, cap>>
    /\ UNCHANGED <<answer, prompts, rmtrees, mkdirs, enumerated, started>>

\* line 173: os.remove of capture_0.png, which raises when the file is not there
captureLoop_remove(t) ==
    /\ wpc[t] = "loop"
    /\ img_num[t] > images[t]
    /\ IF 0 \in Nums(files[wdir[t]])
       THEN /\ files' = [files EXCEPT ![wdir[t]] = {c \in @ : c.num # 0}]
            /\ writers' = [writers EXCEPT ![wdir[t]] = @ \cup {t}]
            /\ wpc' = [wpc EXCEPT ![t] = "release"]
            /\ UNCHANGED <<werr, faulted>>
       ELSE /\ wpc' = [wpc EXCEPT ![t] = "failed"]
            /\ werr' = [werr EXCEPT ![t] = "FileNotFoundError"]
            /\ faulted' = faulted \cup {t}
            /\ UNCHANGED <<files, writers>>
    /\ UNCHANGED <<argVars, rootExists, oldContent, camDirs, videos, videoDims, vruns, logFile, cwd>>
    /\ UNCHANGED <<mainVars, wdir, camera_index, images, pic_time, count, img_num, cap, devReads>>
    /\ UNCHANGED <<answer, prompts, rmtrees, mkdirs, enumerated, started, snapLog>>

\* lines 176-178: cap.release() and return
captureLoop_release(t) ==
    /\ wpc[t] = "release"
    /\ cap' = [cap EXCEPT ![t] = "released"]
    /\ wpc' = [wpc EXCEPT ![t] = "done"]
    /\ UNCHANGED <<argVars, fsVars, mainVars, histVars>>
    /\ UNCHANGED <<wdir, camera_index, werr, images, pic_time, count, img_num, devReads>>

\* -------------------------------------------------------------- img2video
\* the files in every order that is descending in modification time
SortedNewestFirst(fs) ==
    {s \in [1..Cardinality(fs) -> fs] :
        /\ \A a, b \in 1..Cardinality(fs) : a # b => s[a] # s[b]
        /\ \A a, b \in 1..Cardinality(fs) : a < b => s[a].mtime >= s[b].mtime}

\* line 192: images.sort(key=getmtime): every order of the files that is
\* ascending in modification time
SortedByMtime(fs) ==
    {s \in [1..Cardinality(fs) -> fs] :
        /\ \A a, b \in 1..Cardinality(fs) : a # b => s[a] # s[b]
        /\ \A a, b \in 1..Cardinality(fs) : a < b => s[a].mtime <= s[b].mtime}

\* line 183: os.path.join(directory, camera), seen from working directory d;
\* the component of camera_<c> is written as the number c
CameraPath(d, kind, c) == Resolve(d, kind) \o <<ToString(c)>>

\* line 184: the directory os.chdir is given exists
IsCameraDir(path, c) == c \in camDirs /\ path = RootAbs \o <<ToString(c)>>

\* lines 119-120: the timelapse flag, and os.listdir(directory)
main_videoMode ==
    /\ mpc = "returned"
    /\ IF videoMode
       THEN mpc' = "timelapse" /\ todo' = camDirs
       ELSE mpc' = "finished" /\ UNCHANGED todo
    /\ UNCHANGED <<argVars, fsVars, merr, loggerDefined, num_Cams, i, threads>>
    /\ UNCHANGED <<workVars, histVars>>

\* the entry of camera_<c>_video.mp4 in its directory, once it is written
VideoEntry(c) ==
    [num |-> 0 - 1, mtime |-> TickCap + vruns[c], frame |-> 0,
     dims |-> videoDims[c], ext |-> "mp4"]

\* line 188: os.listdir() in the camera directory
Listing(c) == files[c] \cup (IF vruns[c] > 0 THEN {VideoEntry(c)} ELSE {})

\* a listing taken whole, whatever the files are
AnyFile(entries) == entries

\* lines 188-190: the entries whose name ends with '.png'
PngOnly(entries) == {e \in entries : e.ext = "png"}

\* lines 183-212: img2video(directory, camera, fps) called in working
\* directory d. os.chdir raises when the path is no directory; images[0]
\* raises on an empty list, with the working directory already changed;
\* otherwise every image is written, in sorted order, to a video opened with
\* the size of the first.
img2video_body(d, c) ==
    LET path == CameraPath(d, rootKind, c) IN
        IF ~IsCameraDir(path, c)
        THEN /\ mpc' = "error"
             /\ merr' = "FileNotFoundError"
             /\ cwd' = d
             /\ UNCHANGED <<videos, videoDims, vruns>>
        ELSE IF PngOnly(Listing(c)) = {}
        THEN /\ mpc' = "error"
             /\ merr' = "IndexError"
             /\ cwd' = path
             /\ UNCHANGED <<videos, videoDims, vruns>>
        ELSE \E order \in SortedByMtime(PngOnly(Listing(c))) :
             /\ videos' = [videos EXCEPT ![c] = [k \in 1..Len(order) |-> order[k].num]]
             /\ videoDims' = [videoDims EXCEPT ![c] = order[1].dims]
             /\ vruns' = [vruns EXCEPT ![c] = @ + 1]
             /\ cwd' = UpTwo(path)
             /\ UNCHANGED <<mpc, merr>>

\* lines 181-214, called from line 121 for the next entry of the listing
img2video(c) ==
    /\ mpc = "timelapse"
    /\ c \in todo
    /\ img2video_body(cwd, c)
    /\ todo' = IF mpc' = "error" THEN todo ELSE todo \ {c}
    /\ UNCHANGED <<argVars, rootExists, oldContent, camDirs, files, writers, logFile>>
    /\ UNCHANGED <<loggerDefined, num_Cams, i, threads, workVars, histVars>>

\* line 122: every camera directory has been assembled
main_saved ==
    /\ mpc = "timelapse"
    /\ todo = {}
    /\ mpc' = "finished"
    /\ UNCHANGED <<argVars, fsVars, merr, loggerDefined, num_Cams, i, threads, todo>>
    /\ UNCHANGED <<workVars, histVars>>

\* ------------------------------------------------------------------- Spec
Next ==
    \/ get_args_check
    \/ get_args_answer
    \/ main_logging
    \/ main_find
    \/ main_mkdir_root
    \/ main_mkdir_cam
    \/ main_log_created
    \/ openCams_start
    \/ openCams_join
    \/ openCams_return
    \/ main_videoMode
    \/ main_saved
    \/ \E c \in Cams : img2video(c)
    \/ \E t \in Cams : captureLoop_open(t)
    \/ \E t \in Cams : captureLoop_tick(t)
    \/ \E t \in Cams : captureLoop_remove(t)
    \/ \E t \in Cams : captureLoop_release(t)

Spec == Init /\ [][Next]_vars

\* ---------------------------------------------------- openCams on its own
\* openCams(directory, num_Cams, duration, interval) as main calls it at line
\* 115: a debug run on a fresh single-level directory, which has found
\* num_Cams cameras and made their directories.
InitCapture ==
    /\ duration \in ArgRange \ {0}
    /\ interval \in ArgRange \ {0}
    /\ debug = TRUE /\ videoMode = FALSE
    /\ rootKind = "single"
    /\ rootExists = TRUE
    /\ oldContent = FALSE
    /\ num_Cams \in 1..MaxCams
    /\ camDirs = 1..num_Cams
    /\ files = [n \in Cams |-> {}]
    /\ writers = [n \in Cams |-> {}]
    /\ videos = [n \in Cams |-> NoVideo]
    /\ videoDims = [n \in Cams |-> "none"]
    /\ vruns = [n \in Cams |-> 0]
    /\ logFile = TRUE
    /\ cwd = StartCwd
    /\ mpc = "openCams"
    /\ merr = "none"
    /\ loggerDefined = TRUE
    /\ i = 0
    /\ threads = <<>>
    /\ todo = {}
    /\ wdir = [n \in Cams |-> 0]
    /\ camera_index = [n \in Cams |-> 0]
    /\ wpc = [n \in Cams |-> "idle"]
    /\ werr = [n \in Cams |-> "none"]
    /\ images = [n \in Cams |-> 0]
    /\ pic_time = [n \in Cams |-> <<>>]
    /\ count = [n \in Cams |-> 0]
    /\ img_num = [n \in Cams |-> 0]
    /\ cap = [n \in Cams |-> "none"]
    /\ devReads = [n \in Cams |-> 0]
    /\ answer = "none"
    /\ prompts = 0
    /\ rmtrees = 0
    /\ mkdirs = 0..num_Cams
    /\ enumerated = TRUE
    /\ started = {}
    /\ snapLog = [n \in Cams |-> <<>>]
    /\ faulted = {}

NextCapture ==
    \/ openCams_start
    \/ openCams_join
    \/ openCams_return
    \/ \E t \in Cams : captureLoop_open(t)
    \/ \E t \in Cams : captureLoop_tick(t)
    \/ \E t \in Cams : captureLoop_remove(t)
    \/ \E t \in Cams : captureLoop_release(t)

\* the threads are scheduled and none of their statements blocks for ever (the
\* sleep of line 169 returns): a worker that can take a step takes one
FairCapture ==
    /\ InitCapture
    /\ [][NextCapture]_vars
    /\ \A t \in Cams :
        /\ WF_vars(captureLoop_open(t))
        /\ WF_vars(captureLoop_tick(t))
        /\ WF_vars(captureLoop_remove(t))
        /\ WF_vars(captureLoop_release(t))

\* ------------------------------------------------- img2video on its own
\* img2video as a function of a camera directory: the directory camera_1 holds
\* any set of .png files with distinct names and distinct modification times,
\* and img2video(directory, 'camera_1', fps) is called on it, time after time,
\* from the directory the tool was started in.
MaxRuns == 3

FrameSizes == {DeviceDims, "other"}

PngFile(k, m, d) == [num |-> k, mtime |-> m, frame |-> 0, dims |-> d, ext |-> "png"]

\* the directories: capture_<k>.png for the k of a set of numbers, no two
\* written at the same time, each of one of the frame sizes
Directories ==
    UNION {
        {{PngFile(k, m[k], d[k]) : k \in S} :
            m \in {f \in [S -> 0..MaxArg] : \A a, b \in S : a # b => f[a] # f[b]},
            d \in [S -> FrameSizes]}
        : S \in SUBSET (1..MaxArg)}

InitAssemble ==
    /\ duration = 1 /\ interval = 1 /\ debug = TRUE /\ videoMode = TRUE
    /\ rootKind \in RootKinds
    /\ rootExists = TRUE
    /\ oldContent = FALSE
    /\ camDirs = {1}
    /\ \E fs \in Directories : files = [n \in Cams |-> IF n = 1 THEN fs ELSE {}]
    /\ writers = [n \in Cams |-> {}]
    /\ videos = [n \in Cams |-> NoVideo]
    /\ videoDims = [n \in Cams |-> "none"]
    /\ vruns = [n \in Cams |-> 0]
    /\ logFile = TRUE
    /\ cwd = StartCwd
    /\ mpc = "assemble"
    /\ merr = "none"
    /\ loggerDefined = TRUE
    /\ num_Cams = 1
    /\ i = 0
    /\ threads = <<>>
    /\ todo = {}
    /\ wdir = [n \in Cams |-> 0]
    /\ camera_index = [n \in Cams |-> 0]
    /\ wpc = [n \in Cams |-> "idle"]
    /\ werr = [n \in Cams |-> "none"]
    /\ images = [n \in Cams |-> 0]
    /\ pic_time = [n \in Cams |-> <<>>]
    /\ count = [n \in Cams |-> 0]
    /\ img_num = [n \in Cams |-> 0]
    /\ cap = [n \in Cams |-> "none"]
    /\ devReads = [n \in Cams |-> 0]
    /\ answer = "none"
    /\ prompts = 0
    /\ rmtrees = 0
    /\ mkdirs = {}
    /\ enumerated = FALSE
    /\ started = {}
    /\ snapLog = [n \in Cams |-> <<>>]
    /\ faulted = {}

assemble_call(c) ==
    /\ mpc = "assemble"
    /\ c \in camDirs
    /\ vruns[c] < MaxRuns
    /\ img2video_body(StartCwd, c)
    /\ UNCHANGED <<argVars, rootExists, oldContent, camDirs, files, writers, logFile>>
    /\ UNCHANGED <<loggerDefined, num_Cams, i, threads, todo, workVars, histVars>>

NextAssemble == \E c \in Cams : assemble_call(c)

SpecAssemble == InitAssemble /\ [][NextAssemble]_vars

\* ----------------------------------------------------------------- claims
\* the states in which openCams has returned to main
Returned ==
    \/ mpc \in {"returned", "timelapse", "finished"}
    \/ mpc = "error" /\ merr \in {"FileNotFoundError", "IndexError"}

\* nothing on disk or on a device has been touched, and the run has not got
\* as far as discovery or capture
Untouched ==
    /\ mkdirs = {}
    /\ rmtrees = 0
    /\ camDirs = {}
    /\ rootExists = oldContent
    /\ ~logFile
    /\ ~enumerated
    /\ started = {}
    /\ \A t \in Cams : cap[t] = "none" /\ files[t] = {}

\* C1: for duration D >= 1 and interval I >= 1 with I <= D, the directory of a
\* capture worker that has finished holds exactly capture_1.png ..
\* capture_floor(D/I).png, one file per number, and no capture_0.png.
C1_FrameSet ==
    \A t \in Cams :
        (duration >= 1 /\ interval >= 1 /\ interval <= duration /\ wpc[t] = "done")
            => /\ Nums(files[wdir[t]]) = 1..FloorDiv(duration, interval)
               /\ Cardinality(files[wdir[t]]) = FloorDiv(duration, interval)
               /\ 0 \notin Nums(files[wdir[t]])

C1_Witness ==
    \E t \in Cams :
        /\ wpc[t] = "done"
        /\ interval >= 1 /\ interval < duration
        /\ Cardinality(files[wdir[t]]) >= 2

\* C2: with duration 0 or interval 0 the run is rejected before any filesystem
\* or device action: no directory created or removed, no overwrite prompt, no
\* camera enumeration, no worker.
C2_ZeroRejected ==
    (duration = 0 \/ interval = 0)
        => /\ Untouched
           /\ prompts = 0
           /\ mpc \in {"get_args", "error"}
           /\ mpc = "error" => merr = "ZeroesNotAllowed"

C2_Witness ==
    /\ interval = 0 /\ duration # 0
    /\ rootExists
    /\ mpc = "error"

\* C3: when discovery finds no camera the run fails, and neither then nor later
\* has a directory been created or a worker been started.
C3_NoCameras ==
    (enumerated /\ num_Cams = 0)
        => /\ mpc = "error" /\ merr = "ZeroCameras"
           /\ mkdirs = {} /\ camDirs = {}
           /\ started = {}
           /\ \A t \in Cams : wpc[t] = "idle" /\ cap[t] = "none"

C3_Witness == enumerated /\ num_Cams = 0 /\ mpc = "error"

\* C4: when the output directory exists and the answer to the overwrite prompt
\* is anything but 'y', the run ends with the directory's contents unchanged,
\* no camera enumerated, no worker started and no frame captured.
C4_Declined ==
    (answer \notin {"none", "y"})
        => /\ mpc = "exited"
           /\ rootExists /\ oldContent
           /\ Untouched

C4_Witness == answer = "other" /\ mpc = "exited" /\ prompts = 1

C6_Schedule ==
    \A t \in Cams :
        wpc[t] \notin {"idle", "start"}
            => /\ pic_time[t] =
                    [k \in 1..(FloorDiv(duration, interval) + 1) |-> (k - 1) * interval]
               /\ \A a, b \in DOMAIN pic_time[t] :
                    a < b => pic_time[t][a] < pic_time[t][b]
               /\ \A j \in DOMAIN snapLog[t] :
                    snapLog[t][j] = <<j - 1, (j - 1) * interval>>

\* C7: the camera handle of a capture worker, once opened, is released on
\* every path by which the worker ends, the abnormal ones included.
C7_Released ==
    \A t \in Cams :
        (cap[t] # "none" /\ wpc[t] \in {"done", "failed"}) => cap[t] = "released"

\* C8: img2video on a camera directory without a .png file fails with the
\* named error EmptyFrameSet, before a frame is read or a video is opened.
C8_EmptyFrameSet ==
    \A c \in Cams :
        (mpc = "error" /\ cwd = RootAbs \o <<ToString(c)>> /\ files[c] = {})
            => merr = "EmptyFrameSet" /\ videos[c] = NoVideo

\* C9: when a capture worker has ended abnormally, every other worker is
\* untouched by it: a worker that met no failure of its own is not failed,
\* a worker that finished has released its handle and holds its complete
\* frame set, and openCams has returned only if all the others have ended.
C9_Isolation ==
    \A w \in Cams :
        wpc[w] = "failed" =>
            \A v \in started \ {w} :
                /\ v \notin faulted => wpc[v] # "failed"
                /\ Returned => wpc[v] \in {"done", "failed"}
                /\ (Returned /\ v \notin faulted) => wpc[v] = "done"
                /\ wpc[v] = "done" =>
                      /\ cap[v] = "released"
                      /\ Nums(files[wdir[v]]) = 1..images[v]
                      /\ (duration >= 1 /\ interval >= 1) =>
                            Nums(files[wdir[v]]) = 1..FloorDiv(duration, interval)

C9_Witness ==
    /\ mpc = "returned"
    /\ wpc[1] = "failed" /\ werr[1] = "cv2.error"
    /\ wpc[2] = "done" /\ Cardinality(files[wdir[2]]) >= 2

\* C10: a negative interval or duration is rejected before any I/O: no
\* directory created or removed, no camera enumerated or opened, no worker.
C10_NegativeRejected ==
    (duration < 0 \/ interval < 0)
        => /\ mkdirs = {} /\ rmtrees = 0
           /\ ~enumerated
           /\ started = {}
           /\ \A t \in Cams : cap[t] = "none"

\* C11: a timelapse video is created only when timelapse mode is requested:
\* with the flag off no video exists; with the flag on, whatever the output
\* root (single-level, nested or absolute) and the number of cameras, after a
\* run whose workers all finished with frames on disk every camera_<n>,
\* n = 1..N, holds its one video camera_<n>_video.mp4.
C11_Videos ==
    /\ ~videoMode => \A c \in Cams : vruns[c] = 0 /\ videos[c] = NoVideo
    /\ ( /\ videoMode
         /\ mpc \in {"finished", "error"}
         /\ Returned
         /\ \A t \in 1..num_Cams : wpc[t] = "done" /\ files[wdir[t]] # {} )
        => \A n \in 1..num_Cams : vruns[n] = 1 /\ videos[n] # NoVideo

\* C13: the debug flag only enables logging: a run without it that found N
\* cameras does what a run with it does, it creates the directories and
\* starts (and joins) the N workers, and it does not end on the logger.
C13_DebugOnlyLogs ==
    (~debug /\ enumerated /\ num_Cams >= 1 /\ mpc \in {"finished", "error"})
        => /\ merr # "NameError"
           /\ started = 1..num_Cams
           /\ camDirs = 1..num_Cams

\* C14: when img2video returns, the working directory is what it was
\* immediately before the call, for every output root and camera.
C14_CwdRestored ==
    [][(\E c \in Cams : vruns'[c] = vruns[c] + 1) => cwd' = cwd]_vars

C16_CaptureOrder ==
    \A c \in Cams :
        vruns[c] > 0 =>
            /\ Len(videos[c]) = Cardinality(files[c])
            /\ {videos[c][k] : k \in DOMAIN videos[c]} = Nums(files[c])
            /\ \A a, b \in DOMAIN videos[c] : a < b => videos[c][a] < videos[c][b]
            /\ \A t \in started :
                (wdir[t] = c /\ wpc[t] = "done")
                    => /\ videos[c] = [k \in 1..images[t] |-> k]
                       /\ (duration >= 1 /\ interval >= 1)
                             => Len(videos[c]) = FloorDiv(duration, interval)

C16_Witness ==
    \E t \in started :
        /\ wpc[t] = "done"
        /\ vruns[wdir[t]] = 1
        /\ Len(videos[wdir[t]]) >= 3

\* C17: for N detected cameras exactly N workers are started; worker n has
\* directory camera_<n> and device index 2*(n-1); directories and device
\* indices are pairwise distinct, and no directory is ever written or deleted
\* in by two workers.
C17_Distinct ==
    /\ started \subseteq 1..num_Cams
    /\ (mpc = "join" \/ Returned) => started = 1..num_Cams /\ Len(threads) = num_Cams
    /\ \A t \in started : wdir[t] = t /\ camera_index[t] = 2 * (t - 1)
    /\ \A t, u \in started :
          t # u => wdir[t] # wdir[u] /\ camera_index[t] # camera_index[u]
    /\ \A c \in Cams :
          /\ Cardinality(writers[c]) <= 1
          /\ \A t \in writers[c] : wdir[t] = c

C17_Witness ==
    /\ mpc = "join"
    /\ num_Cams = 2
    /\ writers[1] = {1} /\ writers[2] = {2}
    /\ cap[1] = "open" /\ cap[2] = "open"

\* C18: every pass of the capture loop reads one frame and drops it; a pass
\* in which a snapshot is due reads one more, and that second frame is the
\* one written. (count passes and img_num snapshots make count + img_num
\* reads; the file written in the pass at tick c as snapshot k holds read
\* number c + k + 2, the pass's second.)
C18_SecondFrame ==
    \A t \in started :
        /\ wpc[t] \in {"loop", "release", "done"}
              => devReads[t] = count[t] + img_num[t]
        /\ (wpc[t] = "failed" /\ werr[t] = "cv2.error")
              => devReads[t] = count[t] + img_num[t] + 2
        /\ \A f \in files[wdir[t]] :
              /\ f.frame = f.mtime + f.num + 2
              /\ f.frame # DrainedFrame(f.mtime + f.num)

C18_Witness ==
    \E t \in started :
        /\ wpc[t] = "loop"
        /\ interval >= 2
        /\ img_num[t] >= 2
        /\ Cardinality(files[wdir[t]]) >= 2

\* duration and interval are both at least 1
ValidArgs == duration >= 1 /\ interval >= 1

C20_IndexInRange ==
    \A t \in started :
        (wpc[t] = "loop" /\ img_num[t] <= images[t])
            => /\ 0 <= img_num[t]
               /\ img_num[t] <= FloorDiv(duration, interval)
               /\ img_num[t] + 1 \in DOMAIN pic_time[t]
               /\ count[t] <= pic_time[t][img_num[t] + 1]

=============================================================================
